---- MODULE Spec2Model ----
(***************************************************************************)
(* The storage abstraction layer of the bot: the memory, remote-cache      *)
(* (redis) and durable (database) backends and the hybrid orchestrator     *)
(* that cascades reads and fans writes out over them.                      *)
(*                                                                         *)
(* Python strings are sequences of one-character strings, Optional[T] is a *)
(* sequence of length at most one (<<>> is None), dict is a function.      *)
(* Calls into a single backend are atomic steps; a HybridStorageService    *)
(* call is a task whose steps are its code between two suspension points   *)
(* (a redis round trip is the only real suspension: the memory backend     *)
(* never waits and the database backend uses a synchronous session).       *)
(***************************************************************************)
EXTENDS Integers, Sequences, FiniteSets, TLC

VARIABLES
    now,        \* wall clock (datetime.now().timestamp(), time.time(), utcnow())
    tz,         \* the host's UTC offset (local time minus UTC)
    cfg,        \* the layers the HybridStorageService was constructed with
    mem_data,   \* MemoryStorageService._data
    mem_expiry, \* MemoryStorageService._expiry_times
    db,         \* rows of the storage_entries table, by their key column
    rds,        \* the redis keyspace: key -> [data, ttl_at]
    tasks,      \* the HybridStorageService calls in progress, one per task
    last,       \* the call made directly on one backend by the last step, if any
    deleted,    \* per store: keys whose delete completed with no write since
    nops,       \* number of calls started so far
    watch,      \* the watch(pattern) stream of the model, its queues and tasks
    bus         \* the event bus: its handlers and the emit in progress

vars == <<now, tz, cfg, mem_data, mem_expiry, db, rds, tasks, last, deleted, nops, watch,
          bus>>

-----------------------------------------------------------------------------
(* Bounds of the model *)

MaxTime == 2
MaxOps == 2
MaxRegs == 3

Payloads == {"v1", "v2"}
Tasks == {1, 2}
Layers == {"memory", "redis", "database"}
Stores == Layers \cup {"hybrid"}
TzOffsets == {0, 1}

-----------------------------------------------------------------------------
(* Python values *)

None == <<>>
Some(x) == <<x>>
Val(o) == o[1]

\* truthiness of an Optional[number]: None and 0 are falsy
TruthyNum(o) == o # None /\ Val(o) # 0
\* truthiness of an Optional[str]: None and "" are falsy
TruthyStr(o) == o # None /\ Val(o) # <<>>

Digit(d) == CASE d = 0 -> "0" [] d = 1 -> "1" [] d = 2 -> "2" [] d = 3 -> "3"
              [] d = 4 -> "4" [] d = 5 -> "5" [] d = 6 -> "6" [] d = 7 -> "7"
              [] d = 8 -> "8" [] OTHER -> "9"

\* str(n) of a non-negative int
RECURSIVE StrInt(_)
StrInt(n) == IF n < 10 THEN <<Digit(n)>> ELSE StrInt(n \div 10) \o <<Digit(n % 10)>>

StrNone == <<"N", "o", "n", "e">>

\* str(x) of an Optional[int]
StrOptInt(o) == IF o = None THEN StrNone ELSE StrInt(Val(o))
\* str(x) of an Optional[str]
StrOptStr(o) == IF o = None THEN StrNone ELSE Val(o)

Colon == <<":">>

\* ":".join(parts)
RECURSIVE Join(_)
Join(parts) ==
    IF Len(parts) = 0 THEN <<>>
    ELSE IF Len(parts) = 1 THEN parts[1]
    ELSE parts[1] \o Colon \o Join(Tail(parts))

\* s.split(":")
RECURSIVE Split(_)
Split(s) ==
    IF \A i \in 1..Len(s) : s[i] # ":" THEN <<s>>
    ELSE LET i == CHOOSE j \in 1..Len(s) : s[j] = ":" /\ \A h \in 1..(j - 1) : s[h] # ":"
         IN  <<SubSeq(s, 1, i - 1)>> \o Split(SubSeq(s, i + 1, Len(s)))

\* s.startswith(prefix)
StartsWith(s, prefix) == Len(s) >= Len(prefix) /\ SubSeq(s, 1, Len(prefix)) = prefix

DigitVal(c) == CASE c = "0" -> 0 [] c = "1" -> 1 [] c = "2" -> 2 [] c = "3" -> 3
                 [] c = "4" -> 4 [] c = "5" -> 5 [] c = "6" -> 6 [] c = "7" -> 7
                 [] c = "8" -> 8 [] OTHER -> 9

IsDigits(s) == s # <<>> /\ \A i \in 1..Len(s) :
                  s[i] \in {"0", "1", "2", "3", "4", "5", "6", "7", "8", "9"}

\* int(s) of a string of digits
RECURSIVE ParseInt(_)
ParseInt(s) == IF Len(s) = 1 THEN DigitVal(s[1])
               ELSE ParseInt(SubSeq(s, 1, Len(s) - 1)) * 10 + DigitVal(s[Len(s)])

\* Glob match of string s against pattern p (fnmatch, redis MATCH and
\* PSUBSCRIBE): "*" stands for any run of characters, the rest is literal.
RECURSIVE Fnmatch(_, _)
Fnmatch(s, p) ==
    IF p = <<>> THEN s = <<>>
    ELSE IF Head(p) = "*"
         THEN Fnmatch(s, Tail(p)) \/ (s # <<>> /\ Fnmatch(Tail(s), p))
         ELSE s # <<>> /\ Head(s) = Head(p) /\ Fnmatch(Tail(s), Tail(p))

-----------------------------------------------------------------------------
(* interfaces.py *)

StorageScope == [
    GLOBAL  |-> <<"g", "l", "o", "b", "a", "l">>,
    GUILD   |-> <<"g", "u", "i", "l", "d">>,
    CHANNEL |-> <<"c", "h", "a", "n", "n", "e", "l">>,
    USER    |-> <<"u", "s", "e", "r">>,
    FEATURE |-> <<"f", "e", "a", "t", "u", "r", "e">> ]

StorageKey(name, scope, scope_id, namespace) ==
    [name |-> name, scope |-> scope, scope_id |-> scope_id, namespace |-> namespace]

StorageValue(value, expires_at, metadata, version) ==
    [value |-> value, expires_at |-> expires_at, metadata |-> metadata,
     version |-> version]

\* StorageKey.__str__
KeyStr(key) ==
    Join(<<StorageScope[key.scope]>>
         \o (IF key.scope_id # None THEN <<StrInt(Val(key.scope_id))>> ELSE <<>>)
         \o (IF TruthyStr(key.namespace) THEN <<Val(key.namespace)>> ELSE <<>>)
         \o <<key.name>>)

\* The keys and values callers use in this model.
Keys == { StorageKey(<<"a">>, "GLOBAL", None, None),
          StorageKey(<<"b">>, "GUILD", Some(1), Some(<<"n">>)) }

\* The key the orchestrator's callers use.
HybridKeys == { StorageKey(<<"b">>, "GUILD", Some(1), Some(<<"n">>)) }

\* The keys the callers of list use: two scopes, a key without scope_id and
\* without namespace, and two scope_ids one of which is a prefix of the other.
ListKeys == Keys \cup { StorageKey(<<"c">>, "GUILD", Some(12), Some(<<"n">>)) }

\* The (scope, scope_id) arguments the callers of list use.
ListArgs == { [scope |-> sc, scope_id |-> id] :
                sc \in {"GLOBAL", "GUILD"}, id \in {None, Some(1), Some(12)} }

ExpiryChoices == {None, Some(1)}

CallerValues == { StorageValue(p, e, None, None) : p \in Payloads, e \in ExpiryChoices }

\* The keys whose flattened forms are compared: a name with and without the
\* separator, a scope with and without scope_id, and a namespace that is
\* absent, ordinary, or spelled like the absent one.
EncKeys == { StorageKey(n, sc, id, ns) :
               n \in {<<"a">>, <<"n", ":", "a">>},
               sc \in {"GLOBAL", "GUILD"},
               id \in {None, Some(1)},
               ns \in {None, Some(<<"n">>), Some(StrNone)} }

\* The values written under them.
EncValues == { StorageValue(p, None, None, None) : p \in Payloads }

\* The values written before a list or a sweep.
ListValues == { StorageValue("v1", e, None, None) : e \in ExpiryChoices }

\* Keys of a Python dict are compared with hash and ==: a str and a StorageKey
\* are never equal (StorageKey.__eq__ rejects every non-StorageKey).
ObjKey(key) == [type |-> "StorageKey", v |-> key]
StrKey(s) == [type |-> "str", v |-> s]

\* Outcome of a call: what it returned, or the exception it raised.
Ok(v) == [kind |-> "ok", val |-> <<v>>]
Raised(e) == [kind |-> e, val |-> <<>>]
Returned(out) == out.kind = "ok"
RetVal(out) == out.val[1]

NoCall == [store |-> "none", op |-> "none", key |-> <<>>, arg |-> <<>>,
           out |-> Raised("none")]
Call(store, op, key, arg, out) ==
    [store |-> store, op |-> op, key |-> <<key>>, arg |-> arg, out |-> out]

-----------------------------------------------------------------------------
(* dict operations *)

EmptyDict == <<>>
Put(f, k, v) == [x \in (DOMAIN f) \cup {k} |-> IF x = k THEN v ELSE f[x]]
Del(f, k) == [x \in (DOMAIN f) \ {k} |-> f[x]]

-----------------------------------------------------------------------------
(* services/memory.py: MemoryStorageService.  m is [data, expiry].          *)
(* _subscribers starts as a plain dict and subscribe() indexes it before   *)
(* any pattern is in it, so it stays empty and _notify_subscribers has no  *)
(* queue to put the event on.                                              *)

\* get: what it returns or raises
MemGetOut(m, key, t) ==
    LET key_str == StrKey(KeyStr(key)) IN
    IF key_str \notin DOMAIN m.data THEN Raised("KeyError")
    ELSE IF key_str \in DOMAIN m.expiry /\ t > m.expiry[key_str]
         THEN Raised("KeyError")
         ELSE Ok(m.data[key_str])

\* get: the state it leaves (an expired entry is dropped)
MemGetState(m, key, t) ==
    LET key_str == StrKey(KeyStr(key)) IN
    IF /\ key_str \in DOMAIN m.data
       /\ key_str \in DOMAIN m.expiry
       /\ t > m.expiry[key_str]
    THEN [data |-> Del(m.data, key_str), expiry |-> Del(m.expiry, key_str)]
    ELSE m

\* set
MemSetState(m, key, value) ==
    [data   |-> Put(m.data, ObjKey(key), value.value),
     expiry |-> IF TruthyNum(value.expires_at)
                THEN Put(m.expiry, ObjKey(key), Val(value.expires_at))
                ELSE m.expiry]

\* delete
MemDeleteState(m, key) ==
    LET key_str == StrKey(KeyStr(key)) IN
    IF key_str \in DOMAIN m.data
    THEN [data   |-> Del(m.data, key_str),
          expiry |-> IF key_str \in DOMAIN m.expiry
                     THEN Del(m.expiry, key_str) ELSE m.expiry]
    ELSE m

\* list: the loop takes every dict key for a str; a StorageKey has no
\* startswith, so the first one raises AttributeError.
MemListOut(m, scope, scope_id) ==
    LET prefix == StorageScope[scope] \o Colon \o
                  (IF TruthyNum(scope_id) THEN StrInt(Val(scope_id)) ELSE <<>>)
    IN  IF \E k \in DOMAIN m.data : k.type # "str" THEN Raised("AttributeError")
        ELSE Ok({ StorageKey(Split(k.v)[Len(Split(k.v))], scope, scope_id,
                             IF Len(Split(k.v)) > 3 THEN Some(Split(k.v)[3]) ELSE None) :
                  k \in {x \in DOMAIN m.data : StartsWith(x.v, prefix)} })

\* cleanup: every key of _expiry_times whose time has passed leaves both dicts
MemCleanupState(m, t) ==
    LET expired_keys == {k \in DOMAIN m.expiry : t > m.expiry[k] /\ k \in DOMAIN m.data}
    IN  [data   |-> [k \in (DOMAIN m.data) \ expired_keys |-> m.data[k]],
         expiry |-> [k \in (DOMAIN m.expiry) \ expired_keys |-> m.expiry[k]]]

-----------------------------------------------------------------------------
(* services/base.py: BaseStorageService *)

Prefix == <<"b", "o", "t">>

\* _make_key: f"{prefix}:{namespace}:{scope.value}:{scope_id}:{name}"
MakeKey(key) ==
    Prefix \o Colon \o StrOptStr(key.namespace) \o Colon \o StorageScope[key.scope]
           \o Colon \o StrOptInt(key.scope_id) \o Colon \o key.name

\* StorageScope(value): the member with that value
ScopeOf(s) == CHOOSE n \in DOMAIN StorageScope : StorageScope[n] = s

\* _parse_key: the StorageKey, or ValueError
ParseKey(key_str) ==
    LET parts == Split(key_str) IN
    IF Len(parts) < 5 THEN Raised("ValueError")
    ELSE IF \A n \in DOMAIN StorageScope : StorageScope[n] # parts[3] THEN Raised("ValueError")
    ELSE IF parts[4] # StrNone /\ ~IsDigits(parts[4]) THEN Raised("ValueError")
    ELSE Ok(StorageKey(Join(SubSeq(parts, 5, Len(parts))),
                       ScopeOf(parts[3]),
                       IF parts[4] # StrNone THEN Some(ParseInt(parts[4])) ELSE None,
                       Some(parts[2])))

\* A service flattens a key and parses the string back.
RoundTrip(key) ==
    /\ nops < MaxOps
    /\ nops' = nops + 1
    /\ last' = Call("base", "_parse_key", key, None, ParseKey(MakeKey(key)))
    /\ UNCHANGED <<now, tz, cfg, mem_data, mem_expiry, db, rds, tasks, deleted, watch>>
    /\ UNCHANGED bus

\* [self._parse_key(k) for k in keys]: the keys parsed, or the first ValueError
ParseKeys(keys) ==
    IF \E k \in keys : ~Returned(ParseKey(k)) THEN Raised("ValueError")
    ELSE Ok({ RetVal(ParseKey(k)) : k \in keys })

-----------------------------------------------------------------------------
(* services/database.py: DatabaseStorageService.  d maps the key column to *)
(* the row.  A DateTime column holds a naive datetime: fromtimestamp()     *)
(* gives local time, utcnow() gives UTC, so the two differ by the host's   *)
(* UTC offset tz.                                                          *)

FromTimestamp(ts, off) == ts + off
Timestamp(dt, off) == dt - off
UtcNow(t) == t

DbFind(d, key) == IF MakeKey(key) \in DOMAIN d THEN Some(d[MakeKey(key)]) ELSE None

\* get: what it returns or raises
DbGetOut(d, key, t, off) ==
    LET entry == DbFind(d, key) IN
    IF entry = None THEN Raised("KeyError")
    ELSE IF Val(entry).expires_at # None /\ Val(Val(entry).expires_at) < UtcNow(t)
         THEN Raised("KeyError")
         ELSE Ok(StorageValue(
                 Val(entry).value,
                 IF Val(entry).expires_at # None
                 THEN Some(Timestamp(Val(Val(entry).expires_at), off)) ELSE None,
                 Some([version |-> Val(entry).version]),
                 Some(Val(entry).version)))

\* get: the rows it leaves (an expired row is deleted)
DbGetState(d, key, t) ==
    LET entry == DbFind(d, key) IN
    IF /\ entry # None
       /\ Val(entry).expires_at # None
       /\ Val(Val(entry).expires_at) < UtcNow(t)
    THEN Del(d, MakeKey(key))
    ELSE d

\* set: update of the row found, or insert of a new row (version defaults to 1)
DbSetState(d, key, value, off) ==
    LET storage_key == MakeKey(key)
        entry == DbFind(d, key)
    IN  IF entry # None
        THEN Put(d, storage_key,
                 [Val(entry) EXCEPT
                    !.value = value.value,
                    !.version = @ + 1,
                    !.expires_at = IF TruthyNum(value.expires_at)
                                   THEN Some(FromTimestamp(Val(value.expires_at), off))
                                   ELSE @])
        ELSE Put(d, storage_key,
                 [key        |-> storage_key,
                  namespace  |-> IF TruthyStr(key.namespace) THEN Val(key.namespace)
                                 ELSE <<"d", "e", "f", "a", "u", "l", "t">>,
                  scope      |-> StorageScope[key.scope],
                  scope_id   |-> StrOptInt(key.scope_id),
                  value      |-> value.value,
                  expires_at |-> IF TruthyNum(value.expires_at)
                                 THEN Some(FromTimestamp(Val(value.expires_at), off))
                                 ELSE None,
                  version    |-> 1])

\* delete whose session is never committed: the row stays
DbDeleteStateUncommitted(d, key) == d

\* delete
DbDeleteState(d, key) == Del(d, MakeKey(key))

\* list: "scope_id == str(scope_id) if scope_id else None" is the comparison
\* when scope_id is truthy and None otherwise, and and_(..., None) is AND NULL,
\* which no row satisfies.  No condition looks at expires_at.
DbListOut(d, scope, scope_id) ==
    IF ~TruthyNum(scope_id) THEN Ok({})
    ELSE ParseKeys({ k \in DOMAIN d : /\ d[k].scope = StorageScope[scope]
                                      /\ d[k].scope_id = StrInt(Val(scope_id)) })

\* cleanup: the rows whose expires_at is before utcnow() are deleted
DbCleanupState(d, t) ==
    LET gone == {k \in DOMAIN d : d[k].expires_at # None /\ Val(d[k].expires_at) < UtcNow(t)}
    IN  [k \in (DOMAIN d) \ gone |-> d[k]]

-----------------------------------------------------------------------------
(* services/redis.py: RedisStorageService.  r maps a redis key to          *)
(* [data, ttl_at]: the JSON envelope and the time the server drops the key *)
(* at (None: no TTL).                                                      *)

RedisLive(r, k, t) == k \in DOMAIN r /\ (r[k].ttl_at = None \/ t < Val(r[k].ttl_at))

\* The commands a RedisStorageService call sends to the server.
GetCmd(key) == [cmd |-> "GET", key |-> MakeKey(key), data |-> None, ttl |-> None]
DelCmd(key) == [cmd |-> "DEL", key |-> MakeKey(key), data |-> None, ttl |-> None]
SetCmd(key, value, t) ==
    LET data == [value      |-> value.value,
                 expires_at |-> value.expires_at,
                 metadata   |-> value.metadata,
                 version    |-> (IF TruthyNum(value.version) THEN Val(value.version) ELSE 0) + 1]
    IN  IF TruthyNum(value.expires_at)
        THEN [cmd |-> "SETEX", key |-> MakeKey(key), data |-> Some(data),
              ttl |-> Some(Val(value.expires_at) - t)]
        ELSE [cmd |-> "SET", key |-> MakeKey(key), data |-> Some(data), ttl |-> None]

\* The server executing a command at time t: the reply
RedisExecOut(r, c, t) ==
    CASE c.cmd = "GET" ->
            IF RedisLive(r, c.key, t) THEN Ok(Some(r[c.key].data)) ELSE Ok(None)
      [] c.cmd = "SETEX" ->
            IF Val(c.ttl) <= 0 THEN Raised("ResponseError") ELSE Ok(None)
      [] OTHER -> Ok(None)

\* The server executing a command at time t: the keyspace it leaves
RedisExecState(r, c, t) ==
    CASE c.cmd = "SET" -> Put(r, c.key, [data |-> Val(c.data), ttl_at |-> None])
      [] c.cmd = "SETEX" ->
            IF Val(c.ttl) <= 0 THEN r
            ELSE Put(r, c.key, [data |-> Val(c.data), ttl_at |-> Some(t + Val(c.ttl))])
      [] c.cmd = "DEL" -> Del(r, c.key)
      [] OTHER -> r

\* get, after the server's reply: the envelope decoded, or KeyError
RedisGetOut(reply) ==
    IF ~Returned(reply) THEN reply
    ELSE IF RetVal(reply) = None THEN Raised("KeyError")
    ELSE LET value_data == Val(RetVal(reply)) IN
         Ok(StorageValue(value_data.value, value_data.expires_at,
                         value_data.metadata, Some(value_data.version)))

\* list: SCAN with MATCH over the keys the server still has, each parsed
RedisListOut(r, scope, scope_id, t) ==
    LET pattern == MakeKey(StorageKey(<<"*">>, scope, scope_id, Some(<<"*">>)))
    IN  ParseKeys({ k \in DOMAIN r : RedisLive(r, k, t) /\ Fnmatch(k, pattern) })

-----------------------------------------------------------------------------
(* State *)

Mem == [data |-> mem_data, expiry |-> mem_expiry]

\* pc, cmd, reply: where the call is; op, key, arg: the call; errors, found: its
\* locals; out: what the caller got.  calls logs the layer calls it made; quiet
\* says no other caller's write or delete of the key took effect since it began;
\* absent (get) says it began with the key deleted; had (delete) names the
\* layers that held a live entry when it began.
IdleTask == [pc |-> "idle", op |-> "none", key |-> None, arg |-> None,
             calls |-> <<>>, errors |-> <<>>, found |-> None,
             cmd |-> None, reply |-> None, out |-> None,
             quiet |-> TRUE, absent |-> FALSE, had |-> {}]

\* A call starting on task t
NewTask(op, key, arg) ==
    [IdleTask EXCEPT !.op = op, !.key = Some(key), !.arg = arg]

\* One call on a layer, as the orchestrator's call log records it
LayerCall(layer, op, out) == [layer |-> layer, op |-> op, kind |-> out.kind]

\* The event classes handlers are registered for; SubEvent is a subclass of
\* FileChangeEvent.
EventTypes == {"FileChangeEvent", "FeatureReloadEvent", "SubEvent"}
Bases(T) == IF T = "SubEvent" THEN {"SubEvent", "FileChangeEvent"} ELSE {T}

\* The coroutine functions registered as handlers.
HandlerNames == {"h1", "h2"}

\* The bus: _handlers maps an event type to the list of its handlers and
\* _redis is set by initialize.  event and at_emit are the type of the event
\* being emitted and its handler list when emit was called; invoked lists
\* the handlers emit called, each with the type it was registered for;
\* running and finished are the positions in invoked of the handlers still
\* running and of those that returned; out is what emit returned or raised.
NoBus == [handlers |-> [T \in EventTypes |-> <<>>], redis |-> FALSE,
          pc |-> "idle", event |-> None, at_emit |-> <<>>,
          invoked |-> <<>>, running |-> {}, finished |-> {}, out |-> None]

\* The patterns watchers pass: everything, and the keys of one guild.
WatchPatterns == { <<"*">>, <<"n", ":", "g", "u", "i", "l", "d", ":", "1", ":", "*">> }

\* The values written while a stream is watched.
WatchValues == { StorageValue("v1", None, None, None) }

\* The stream: kind is the service whose watch(pattern) was called and state
\* where its consumer is.  For each layer, reg says the layer's registry holds
\* the stream's queue (database: _subscribers, redis: the PSUBSCRIBE), lq is
\* that queue, fwd the forwarding task of a hybrid stream.  hreg and hq are the
\* orchestrator's registry entry and queue, got what the consumer was handed.
\* sent logs the operations the stream should show, late and stale count what
\* was enqueued after the close (stale: by a layer whose forwarding task was
\* not waiting to be cancelled).
NoWatch == [kind |-> "none", pattern |-> None, state |-> "none", err |-> None,
            fwd |-> [l \in Layers |-> "none"],
            reg |-> [l \in Layers |-> FALSE],
            lq |-> [l \in Layers |-> <<>>],
            hreg |-> FALSE, hq |-> <<>>, got |-> <<>>,
            sent |-> <<>>, late |-> 0, stale |-> 0]

\* watch_pattern = f"{self.prefix}:{pattern}"
WatchPattern(p) == Prefix \o Colon \o p

\* What _notify_change puts on a queue: (key, value)
Item(key, value) == [key |-> key, value |-> Some(value.value)]

\* What redis delivers to a pattern subscriber: the channel and the JSON
\* published on it, the envelope of a set or {"deleted": true} (None here)
Message(key, data) == [channel |-> MakeKey(key), data |-> data]

\* What a layer's watch yields for an entry of its queue
Yielded(layer, x) ==
    IF layer = "redis"
    THEN [key |-> RetVal(ParseKey(x.channel)), value |-> Some(Val(x.data).value)]
    ELSE x

\* The redis watch skips the messages that carry "deleted"
Skipped(layer, x) == layer = "redis" /\ x.data = None

\* An entry is put on the stream's queue in a layer.
LayerPut(w, layer, x) ==
    LET w1 == [w EXCEPT !.lq[layer] = Append(@, x)] IN
    IF w.state = "closed"
    THEN [w1 EXCEPT !.late = @ + 1,
                    !.stale = @ + (IF w.fwd[layer] = "cancelling" THEN 0 ELSE 1)]
    ELSE w1

\* DatabaseStorageService._notify_change
DbNotify(w, key, value) ==
    IF w.reg["database"] /\ Fnmatch(MakeKey(key), WatchPattern(Val(w.pattern)))
    THEN LayerPut(w, "database", Item(key, value)) ELSE w

\* redis.publish(redis_key, ...) as the pattern subscriber sees it
RedisPublish(w, key, data) ==
    IF w.reg["redis"] /\ Fnmatch(MakeKey(key), WatchPattern(Val(w.pattern)))
    THEN LayerPut(w, "redis", Message(key, data)) ELSE w

\* HybridStorageService._notify_change: the key is matched against the
\* pattern as the watcher passed it
HybridNotify(w, key, value) ==
    IF w.hreg /\ Fnmatch(MakeKey(key), Val(w.pattern))
    THEN [w EXCEPT !.hq = Append(@, Item(key, value)),
                   !.late = @ + (IF w.state = "closed" THEN 1 ELSE 0),
                   !.stale = @ + (IF w.state = "closed" THEN 1 ELSE 0)]
    ELSE w

\* Every forwarding task of the stream has begun to watch its layer or failed.
Settled(w) == \A l \in Layers : w.fwd[l] # "created"

\* The open stream should show an operation made on a store: a single
\* backend's stream every set and delete on it of a key its pattern matches,
\* the orchestrator's stream every set on a configured layer.
Observes(w, store, op, key) ==
    /\ w.state = "open"
    /\ Fnmatch(MakeKey(key), WatchPattern(Val(w.pattern)))
    /\ \/ w.kind = store /\ store \in Layers
       \/ /\ w.kind = "hybrid"
          /\ op = "set"
          /\ store \in cfg
          /\ Settled(w)
          /\ (store = "redis" => w.fwd["redis"] = "watching")

\* The operation is logged for the stream that should show it.
Noted(w, store, op, key, value) ==
    IF Observes(w, store, op, key)
    THEN [w EXCEPT !.sent = Append(@, [op |-> op, key |-> key, value |-> value])]
    ELSE w

Init ==
    /\ now = 0
    /\ tz \in TzOffsets
    /\ cfg \in SUBSET Layers
    /\ mem_data = EmptyDict
    /\ mem_expiry = EmptyDict
    /\ db = EmptyDict
    /\ rds = EmptyDict
    /\ tasks = [t \in Tasks |-> IdleTask]
    /\ last = NoCall
    /\ deleted = [s \in Stores |-> {}]
    /\ nops = 0
    /\ watch = NoWatch
    /\ bus = NoBus

\* A write of key took effect on a layer: the key no longer counts as deleted
\* there or in the orchestrator.
AfterWrite(del, layer, key) ==
    [s \in Stores |-> IF s \in {layer, "hybrid"} THEN del[s] \ {key} ELSE del[s]]

\* A write or a delete of key by another caller took effect: the calls of the
\* other tasks on that key no longer have the key to themselves.
Raced(tk, t, key) ==
    [u \in Tasks |->
        IF u # t /\ tk[u].key = Some(key)
        THEN [tk[u] EXCEPT !.quiet = FALSE] ELSE tk[u]]

Tick ==
    /\ now < MaxTime
    /\ now' = now + 1
    /\ last' = NoCall
    /\ UNCHANGED <<tz, cfg, mem_data, mem_expiry, db, rds, tasks, deleted, nops, watch>>
    /\ UNCHANGED bus

-----------------------------------------------------------------------------
(* Calls made directly on one backend *)

MemGet(key) ==
    /\ nops < MaxOps
    /\ nops' = nops + 1
    /\ last' = Call("memory", "get", key, None, MemGetOut(Mem, key, now))
    /\ mem_data' = MemGetState(Mem, key, now).data
    /\ mem_expiry' = MemGetState(Mem, key, now).expiry
    /\ UNCHANGED <<now, tz, cfg, db, rds, tasks, deleted, watch>>
    /\ UNCHANGED bus

MemSet(key, value) ==
    /\ nops < MaxOps
    /\ nops' = nops + 1
    /\ last' = Call("memory", "set", key, Some(value), Ok(None))
    /\ mem_data' = MemSetState(Mem, key, value).data
    /\ mem_expiry' = MemSetState(Mem, key, value).expiry
    /\ deleted' = AfterWrite(deleted, "memory", key)
    /\ tasks' = Raced(tasks, 0, key)
    /\ UNCHANGED <<now, tz, cfg, db, rds>>
    /\ watch' = Noted(watch, "memory", "set", key, Some(value.value))
    /\ UNCHANGED bus

MemDelete(key) ==
    /\ nops < MaxOps
    /\ nops' = nops + 1
    /\ last' = Call("memory", "delete", key, None, Ok(None))
    /\ mem_data' = MemDeleteState(Mem, key).data
    /\ mem_expiry' = MemDeleteState(Mem, key).expiry
    /\ deleted' = [deleted EXCEPT !["memory"] = @ \cup {key}]
    /\ tasks' = Raced(tasks, 0, key)
    /\ UNCHANGED <<now, tz, cfg, db, rds>>
    /\ watch' = Noted(watch, "memory", "delete", key, None)
    /\ UNCHANGED bus

\* A database call either reaches the database (up) or raises a connection error.
DbGet(key) ==
    /\ nops < MaxOps
    /\ nops' = nops + 1
    /\ \E up \in BOOLEAN :
        IF up
        THEN /\ last' = Call("database", "get", key, None, DbGetOut(db, key, now, tz))
             /\ db' = DbGetState(db, key, now)
        ELSE /\ last' = Call("database", "get", key, None, Raised("ConnectionError"))
             /\ db' = db
    /\ UNCHANGED <<now, tz, cfg, mem_data, mem_expiry, rds, tasks, deleted, watch>>
    /\ UNCHANGED bus

DbSet(key, value) ==
    /\ nops < MaxOps
    /\ nops' = nops + 1
    /\ \E up \in BOOLEAN :
        IF up
        THEN /\ last' = Call("database", "set", key, Some(value), Ok(None))
             /\ db' = DbSetState(db, key, value, tz)
             /\ deleted' = AfterWrite(deleted, "database", key)
             /\ tasks' = Raced(tasks, 0, key)
             /\ watch' = DbNotify(Noted(watch, "database", "set", key, Some(value.value)),
                                  key, value)
        ELSE /\ last' = Call("database", "set", key, Some(value), Raised("ConnectionError"))
             /\ UNCHANGED <<db, deleted, tasks, watch>>
    /\ UNCHANGED <<now, tz, cfg, mem_data, mem_expiry, rds>>
    /\ UNCHANGED bus

DbDelete(key) ==
    /\ nops < MaxOps
    /\ nops' = nops + 1
    /\ \E up \in BOOLEAN :
        IF up
        THEN /\ last' = Call("database", "delete", key, None, Ok(None))
             /\ db' = DbDeleteState(db, key)
             /\ deleted' = [deleted EXCEPT !["database"] = @ \cup {key}]
             /\ tasks' = Raced(tasks, 0, key)
             /\ watch' = Noted(watch, "database", "delete", key, None)
        ELSE /\ last' = Call("database", "delete", key, None, Raised("ConnectionError"))
             /\ UNCHANGED <<db, deleted, tasks, watch>>
    /\ UNCHANGED <<now, tz, cfg, mem_data, mem_expiry, rds>>
    /\ UNCHANGED bus

\* A redis call sends its command; the server executes it, or the connection fails.
RedisGet(key) ==
    /\ nops < MaxOps
    /\ nops' = nops + 1
    /\ \E up \in BOOLEAN :
        LET reply == IF up THEN RedisExecOut(rds, GetCmd(key), now)
                     ELSE Raised("ConnectionError")
        IN  last' = Call("redis", "get", key, None, RedisGetOut(reply))
    /\ UNCHANGED <<now, tz, cfg, mem_data, mem_expiry, db, rds, tasks, deleted, watch>>
    /\ UNCHANGED bus

RedisSet(key, value) ==
    /\ nops < MaxOps
    /\ nops' = nops + 1
    /\ \E up \in BOOLEAN :
        LET c == SetCmd(key, value, now) IN
        IF up
        THEN /\ last' = Call("redis", "set", key, Some(value), RedisExecOut(rds, c, now))
             /\ rds' = RedisExecState(rds, c, now)
             /\ IF Returned(RedisExecOut(rds, c, now))
                THEN /\ deleted' = AfterWrite(deleted, "redis", key)
                     /\ tasks' = Raced(tasks, 0, key)
                     /\ watch' = RedisPublish(
                                    Noted(watch, "redis", "set", key, Some(value.value)),
                                    key, c.data)
                ELSE UNCHANGED <<deleted, tasks, watch>>
        ELSE /\ last' = Call("redis", "set", key, Some(value), Raised("ConnectionError"))
             /\ UNCHANGED <<rds, deleted, tasks, watch>>
    /\ UNCHANGED <<now, tz, cfg, mem_data, mem_expiry, db>>
    /\ UNCHANGED bus

RedisDelete(key) ==
    /\ nops < MaxOps
    /\ nops' = nops + 1
    /\ \E up \in BOOLEAN :
        IF up
        THEN /\ last' = Call("redis", "delete", key, None, Ok(None))
             /\ rds' = RedisExecState(rds, DelCmd(key), now)
             /\ deleted' = [deleted EXCEPT !["redis"] = @ \cup {key}]
             /\ tasks' = Raced(tasks, 0, key)
             /\ watch' = RedisPublish(Noted(watch, "redis", "delete", key, None), key, None)
        ELSE /\ last' = Call("redis", "delete", key, None, Raised("ConnectionError"))
             /\ UNCHANGED <<rds, deleted, tasks, watch>>
    /\ UNCHANGED <<now, tz, cfg, mem_data, mem_expiry, db>>
    /\ UNCHANGED bus

\* A call of list or cleanup, as the last step records it
KeylessCall(store, op, arg, out) ==
    [store |-> store, op |-> op, key |-> None, arg |-> arg, out |-> out]

MemList(a) ==
    /\ nops < MaxOps
    /\ nops' = nops + 1
    /\ last' = KeylessCall("memory", "list", Some(a), MemListOut(Mem, a.scope, a.scope_id))
    /\ UNCHANGED <<now, tz, cfg, mem_data, mem_expiry, db, rds, tasks, deleted, watch>>
    /\ UNCHANGED bus

DbList(a) ==
    /\ nops < MaxOps
    /\ nops' = nops + 1
    /\ \E up \in BOOLEAN :
        last' = KeylessCall("database", "list", Some(a),
                            IF up THEN DbListOut(db, a.scope, a.scope_id)
                            ELSE Raised("ConnectionError"))
    /\ UNCHANGED <<now, tz, cfg, mem_data, mem_expiry, db, rds, tasks, deleted, watch>>
    /\ UNCHANGED bus

RedisList(a) ==
    /\ nops < MaxOps
    /\ nops' = nops + 1
    /\ \E up \in BOOLEAN :
        last' = KeylessCall("redis", "list", Some(a),
                            IF up THEN RedisListOut(rds, a.scope, a.scope_id, now)
                            ELSE Raised("ConnectionError"))
    /\ UNCHANGED <<now, tz, cfg, mem_data, mem_expiry, db, rds, tasks, deleted, watch>>
    /\ UNCHANGED bus

MemCleanup ==
    /\ nops < MaxOps
    /\ nops' = nops + 1
    /\ last' = KeylessCall("memory", "cleanup", None, Ok(None))
    /\ mem_data' = MemCleanupState(Mem, now).data
    /\ mem_expiry' = MemCleanupState(Mem, now).expiry
    /\ UNCHANGED <<now, tz, cfg, db, rds, tasks, deleted, watch>>
    /\ UNCHANGED bus

DbCleanup ==
    /\ nops < MaxOps
    /\ nops' = nops + 1
    /\ \E up \in BOOLEAN :
        IF up
        THEN /\ last' = KeylessCall("database", "cleanup", None, Ok(None))
             /\ db' = DbCleanupState(db, now)
        ELSE /\ last' = KeylessCall("database", "cleanup", None, Raised("ConnectionError"))
             /\ db' = db
    /\ UNCHANGED <<now, tz, cfg, mem_data, mem_expiry, rds, tasks, deleted, watch>>
    /\ UNCHANGED bus

-----------------------------------------------------------------------------
(* services/hybrid.py: HybridStorageService.  A call runs on a task; while *)
(* it waits for redis its command is in tasks[t].cmd, then the server's    *)
(* reply in tasks[t].reply.                                                *)

\* What get on one layer would return or raise now, the layer being reachable
LayerGetOut(layer, key) ==
    CASE layer = "memory" -> MemGetOut(Mem, key, now)
      [] layer = "redis" -> RedisGetOut(RedisExecOut(rds, GetCmd(key), now))
      [] layer = "database" -> DbGetOut(db, key, now, tz)

\* A call starts on the first free task.
Free(t) ==
    /\ tasks[t].pc = "idle"
    /\ \A u \in Tasks : tasks[u].pc = "idle" => t <= u
    /\ nops < MaxOps

Logged(tk, layer, op, out) == [tk EXCEPT !.calls = Append(@, LayerCall(layer, op, out))]
Failed(tk, layer) == [tk EXCEPT !.errors = Append(@, layer)]
Finished(tk, out) == [tk EXCEPT !.pc = "idle", !.cmd = None, !.reply = None,
                                !.out = Some(out)]
Waiting(tk, pc, c) == [tk EXCEPT !.pc = pc, !.cmd = Some(c), !.reply = None]

\* The redis server executes the command of task t, or the connection fails.
RedisServe(t) ==
    /\ tasks[t].cmd # None
    /\ tasks[t].reply = None
    /\ \E up \in BOOLEAN :
        LET c == Val(tasks[t].cmd)
            key == Val(tasks[t].key)
            reply == IF up THEN RedisExecOut(rds, c, now) ELSE Raised("ConnectionError")
            wrote == up /\ c.cmd \in {"SET", "SETEX"} /\ Returned(reply)
            changed == wrote \/ (up /\ c.cmd = "DEL")
            tk == [tasks EXCEPT ![t].reply = Some(reply)]
        IN  /\ rds' = IF up THEN RedisExecState(rds, c, now) ELSE rds
            /\ deleted' = IF wrote THEN AfterWrite(deleted, "redis", key) ELSE deleted
            /\ tasks' = IF changed THEN Raced(tk, t, key) ELSE tk
            /\ watch' = IF wrote
                         THEN RedisPublish(
                                IF tasks[t].op = "set"
                                THEN Noted(watch, "redis", "set", key, Some(Val(c.data).value))
                                ELSE watch,
                                key, c.data)
                         ELSE IF up /\ c.cmd = "DEL" THEN RedisPublish(watch, key, None)
                         ELSE watch
    /\ last' = NoCall
    /\ UNCHANGED <<now, tz, cfg, mem_data, mem_expiry, db, nops>>
    /\ UNCHANGED bus

\* get, lines 65-78: the database layer, then KeyError.  tk and m are the task
\* and the memory backend as the code before it left them.
HGetDatabase(t, tk, m) ==
    IF "database" \notin cfg
    THEN /\ tasks' = [tasks EXCEPT ![t] = Finished(tk, Raised("KeyError"))]
         /\ mem_data' = m.data
         /\ mem_expiry' = m.expiry
         /\ UNCHANGED <<db, deleted>>
    ELSE \E up \in BOOLEAN :
        LET key == Val(tk.key)
            out == IF up THEN DbGetOut(db, key, now, tz) ELSE Raised("ConnectionError")
            tk1 == Logged(tk, "database", "get", out)
            value == RetVal(out)
            m1 == IF "memory" \in cfg THEN MemSetState(m, key, value) ELSE m
            tk2 == IF "memory" \in cfg THEN Logged(tk1, "memory", "set", Ok(None)) ELSE tk1
            tk3 == [tk2 EXCEPT !.found = Some(value)]
        IN  /\ db' = IF up THEN DbGetState(db, key, now) ELSE db
            /\ IF Returned(out)
               THEN /\ mem_data' = m1.data
                    /\ mem_expiry' = m1.expiry
                    /\ deleted' = IF "memory" \in cfg
                                  THEN AfterWrite(deleted, "memory", key) ELSE deleted
                    /\ LET tks == IF "redis" \in cfg
                                  THEN [tasks EXCEPT ![t] =
                                          Waiting(tk3, "get_backfill", SetCmd(key, value, now))]
                                  ELSE [tasks EXCEPT ![t] = Finished(tk3, Ok(value))]
                       IN tasks' = IF "memory" \in cfg THEN Raced(tks, t, key) ELSE tks
               ELSE /\ mem_data' = m.data
                    /\ mem_expiry' = m.expiry
                    /\ deleted' = deleted
                    /\ tasks' = [tasks EXCEPT ![t] =
                                    Finished(Failed(tk1, "Database"), Raised("KeyError"))]

\* get, lines 42-57: the memory layer, then the request to redis
HGet(t, key) ==
    /\ Free(t)
    /\ nops' = nops + 1
    /\ last' = NoCall
    /\ LET tk0 == [NewTask("get", key, None) EXCEPT !.absent = key \in deleted["hybrid"]]
           out == MemGetOut(Mem, key, now)
           m == IF "memory" \in cfg THEN MemGetState(Mem, key, now) ELSE Mem
           tk1 == IF "memory" \in cfg THEN Logged(tk0, "memory", "get", out) ELSE tk0
       IN  IF "memory" \in cfg /\ Returned(out)
           THEN /\ tasks' = [tasks EXCEPT ![t] = Finished(tk1, out)]
                /\ mem_data' = m.data
                /\ mem_expiry' = m.expiry
                /\ UNCHANGED <<db, deleted>>
           ELSE LET tk2 == IF "memory" \in cfg THEN Failed(tk1, "Memory") ELSE tk1 IN
                IF "redis" \in cfg
                THEN /\ tasks' = [tasks EXCEPT ![t] = Waiting(tk2, "get_redis", GetCmd(key))]
                     /\ mem_data' = m.data
                     /\ mem_expiry' = m.expiry
                     /\ UNCHANGED <<db, deleted>>
                ELSE HGetDatabase(t, tk2, m)
    /\ UNCHANGED <<now, tz, cfg, rds, watch>>
    /\ UNCHANGED bus

\* get, lines 56-63 and on: redis answered
HGetRedisReply(t) ==
    /\ tasks[t].pc = "get_redis"
    /\ tasks[t].reply # None
    /\ last' = NoCall
    /\ LET key == Val(tasks[t].key)
           out == RedisGetOut(Val(tasks[t].reply))
           tk1 == Logged(tasks[t], "redis", "get", out)
           value == RetVal(out)
       IN  IF Returned(out)
           THEN LET m1 == IF "memory" \in cfg THEN MemSetState(Mem, key, value) ELSE Mem
                    tk2 == IF "memory" \in cfg
                           THEN Logged(tk1, "memory", "set", Ok(None)) ELSE tk1
                    tks == [tasks EXCEPT ![t] =
                              Finished([tk2 EXCEPT !.found = Some(value)], Ok(value))]
                IN  /\ mem_data' = m1.data
                    /\ mem_expiry' = m1.expiry
                    /\ deleted' = IF "memory" \in cfg
                                  THEN AfterWrite(deleted, "memory", key) ELSE deleted
                    /\ tasks' = IF "memory" \in cfg THEN Raced(tks, t, key) ELSE tks
                    /\ db' = db
           ELSE HGetDatabase(t, Failed(tk1, "Redis"), Mem)
    /\ UNCHANGED <<now, tz, cfg, rds, nops, watch>>
    /\ UNCHANGED bus

\* get, lines 70-76: the back-fill of redis answered
HGetBackfillReply(t) ==
    /\ tasks[t].pc = "get_backfill"
    /\ tasks[t].reply # None
    /\ last' = NoCall
    /\ LET out == Val(tasks[t].reply)
           tk1 == Logged(tasks[t], "redis", "set", out)
       IN  tasks' = [tasks EXCEPT ![t] =
                IF Returned(out) THEN Finished(tk1, Ok(Val(tk1.found)))
                ELSE Finished(Failed(tk1, "Database"), Raised("KeyError"))]
    /\ UNCHANGED <<now, tz, cfg, mem_data, mem_expiry, db, rds, deleted, nops, watch>>
    /\ UNCHANGED bus

\* What asyncio.gather raises or returns once the last layer has answered: the
\* exception the caller already has, else the one redis raised, else None.
Gathered(tk, reply) == IF tk.out # None THEN Val(tk.out) ELSE reply

\* set, lines 80-91: the three writes are started in order; memory's and the
\* database's run to their end at once, redis's waits for the server.  An
\* exception of the database write reaches the caller while redis still works.
HSet(t, key, value) ==
    /\ Free(t)
    /\ nops' = nops + 1
    /\ last' = NoCall
    /\ \E up \in BOOLEAN :
        LET tk0 == NewTask("set", key, Some(value))
            m1 == IF "memory" \in cfg THEN MemSetState(Mem, key, value) ELSE Mem
            tk1 == IF "memory" \in cfg THEN Logged(tk0, "memory", "set", Ok(None)) ELSE tk0
            dbout == IF up THEN Ok(None) ELSE Raised("ConnectionError")
            dbwrote == "database" \in cfg /\ up
            tk2 == IF "database" \in cfg THEN Logged(tk1, "database", "set", dbout) ELSE tk1
            tk3 == IF "database" \in cfg /\ ~up THEN [tk2 EXCEPT !.out = Some(dbout)] ELSE tk2
            del1 == IF "memory" \in cfg THEN AfterWrite(deleted, "memory", key) ELSE deleted
            del2 == IF dbwrote THEN AfterWrite(del1, "database", key) ELSE del1
            tks == IF "redis" \in cfg
                   THEN [tasks EXCEPT ![t] = Waiting(tk3, "set_redis", SetCmd(key, value, now))]
                   ELSE [tasks EXCEPT ![t] = Finished(tk3, Gathered(tk3, Ok(None)))]
        IN  /\ ("database" \notin cfg => up)
            /\ mem_data' = m1.data
            /\ mem_expiry' = m1.expiry
            /\ db' = IF dbwrote THEN DbSetState(db, key, value, tz) ELSE db
            /\ deleted' = del2
            /\ tasks' = IF "memory" \in cfg \/ dbwrote THEN Raced(tks, t, key) ELSE tks
            /\ LET w1 == IF "memory" \in cfg
                         THEN Noted(watch, "memory", "set", key, Some(value.value))
                         ELSE watch
                   w2 == IF dbwrote
                         THEN DbNotify(Noted(w1, "database", "set", key, Some(value.value)),
                                       key, value)
                         ELSE w1
               IN  watch' = IF "redis" \notin cfg /\ Returned(Gathered(tk3, Ok(None)))
                            THEN HybridNotify(w2, key, value) ELSE w2
    /\ UNCHANGED <<now, tz, cfg, rds>>
    /\ UNCHANGED bus

\* set that notifies the subscribers whatever the layers' writes raised
HSetRedisReplyAlways(t) ==
    /\ tasks[t].pc = "set_redis"
    /\ tasks[t].reply # None
    /\ last' = NoCall
    /\ LET tk1 == Logged(tasks[t], "redis", "set", Val(tasks[t].reply))
       IN  /\ tasks' = [tasks EXCEPT ![t] = Finished(tk1, Gathered(tk1, Val(tk1.reply)))]
           /\ watch' = HybridNotify(watch, Val(tk1.key), Val(tk1.arg))
    /\ UNCHANGED <<now, tz, cfg, mem_data, mem_expiry, db, rds, deleted, nops>>
    /\ UNCHANGED bus

\* set, lines 91-95: redis answered, gather is over
HSetRedisReply(t) ==
    /\ tasks[t].pc = "set_redis"
    /\ tasks[t].reply # None
    /\ last' = NoCall
    /\ LET tk1 == Logged(tasks[t], "redis", "set", Val(tasks[t].reply))
       IN  /\ tasks' = [tasks EXCEPT ![t] = Finished(tk1, Gathered(tk1, Val(tk1.reply)))]
           /\ watch' = IF Returned(Gathered(tk1, Val(tk1.reply)))
                        THEN HybridNotify(watch, Val(tk1.key), Val(tk1.arg)) ELSE watch
    /\ UNCHANGED <<now, tz, cfg, mem_data, mem_expiry, db, rds, deleted, nops>>
    /\ UNCHANGED bus

\* The delete of task tk is over with outcome out: the key counts as deleted
\* when every layer's delete succeeded and no writer raced it.
AfterDelete(del, tk, out) ==
    IF Returned(out) /\ tk.quiet
    THEN [del EXCEPT !["hybrid"] = @ \cup {Val(tk.key)}]
    ELSE del

\* delete, lines 97-108: as set
HDelete(t, key) ==
    /\ Free(t)
    /\ nops' = nops + 1
    /\ last' = NoCall
    /\ \E up \in BOOLEAN :
        LET tk0 == [NewTask("delete", key, None) EXCEPT
                       !.had = {l \in cfg : Returned(LayerGetOut(l, key))}]
            m1 == IF "memory" \in cfg THEN MemDeleteState(Mem, key) ELSE Mem
            tk1 == IF "memory" \in cfg THEN Logged(tk0, "memory", "delete", Ok(None)) ELSE tk0
            dbout == IF up THEN Ok(None) ELSE Raised("ConnectionError")
            tk2 == IF "database" \in cfg THEN Logged(tk1, "database", "delete", dbout) ELSE tk1
            tk3 == IF "database" \in cfg /\ ~up THEN [tk2 EXCEPT !.out = Some(dbout)] ELSE tk2
        IN  /\ ("database" \notin cfg => up)
            /\ mem_data' = m1.data
            /\ mem_expiry' = m1.expiry
            /\ db' = IF "database" \in cfg /\ up THEN DbDeleteState(db, key) ELSE db
            /\ IF "redis" \in cfg
               THEN /\ tasks' = Raced([tasks EXCEPT ![t] =
                                          Waiting(tk3, "del_redis", DelCmd(key))], t, key)
                    /\ deleted' = deleted
               ELSE /\ tasks' = Raced([tasks EXCEPT ![t] =
                                          Finished(tk3, Gathered(tk3, Ok(None)))], t, key)
                    /\ deleted' = AfterDelete(deleted, tk3, Gathered(tk3, Ok(None)))
    /\ UNCHANGED <<now, tz, cfg, rds, watch>>
    /\ UNCHANGED bus

\* delete, line 108: redis answered, gather is over
HDeleteRedisReply(t) ==
    /\ tasks[t].pc = "del_redis"
    /\ tasks[t].reply # None
    /\ last' = NoCall
    /\ LET tk1 == Logged(tasks[t], "redis", "delete", Val(tasks[t].reply))
           out == Gathered(tk1, Val(tk1.reply))
       IN  /\ tasks' = [tasks EXCEPT ![t] = Finished(tk1, out)]
           /\ deleted' = AfterDelete(deleted, tk1, out)
    /\ UNCHANGED <<now, tz, cfg, mem_data, mem_expiry, db, rds, nops, watch>>
    /\ UNCHANGED bus

\* What list on one layer would return or raise now, the layer being reachable
LayerListOut(layer, a) ==
    CASE layer = "memory" -> MemListOut(Mem, a.scope, a.scope_id)
      [] layer = "redis" -> RedisListOut(rds, a.scope, a.scope_id, now)
      [] layer = "database" -> DbListOut(db, a.scope, a.scope_id)

\* list that asks the fastest configured layer instead of the most complete
HListFastest(t, a) ==
    /\ Free(t)
    /\ nops' = nops + 1
    /\ \E up \in BOOLEAN :
        LET tk0 == [IdleTask EXCEPT !.op = "list", !.arg = Some(a)]
            layer == IF "memory" \in cfg THEN "memory"
                     ELSE IF "redis" \in cfg THEN "redis" ELSE "database"
            out == IF cfg = {} THEN Ok({})
                   ELSE IF up THEN LayerListOut(layer, a) ELSE Raised("ConnectionError")
            tk1 == IF cfg = {} THEN tk0 ELSE Logged(tk0, layer, "list", out)
        IN  /\ (layer = "memory" => up)
            /\ tasks' = [tasks EXCEPT ![t] = Finished(tk1, out)]
            /\ last' = KeylessCall("hybrid", "list", Some(a), out)
    /\ UNCHANGED <<now, tz, cfg, mem_data, mem_expiry, db, rds, deleted, watch>>
    /\ UNCHANGED bus

\* list, lines 110-120: the first configured of database, redis, memory
\* answers for the orchestrator; no layer configured gives [].
HList(t, a) ==
    /\ Free(t)
    /\ nops' = nops + 1
    /\ \E up \in BOOLEAN :
        LET tk0 == [IdleTask EXCEPT !.op = "list", !.arg = Some(a)]
            layer == IF "database" \in cfg THEN "database"
                     ELSE IF "redis" \in cfg THEN "redis" ELSE "memory"
            out == IF cfg = {} THEN Ok({})
                   ELSE IF up THEN LayerListOut(layer, a) ELSE Raised("ConnectionError")
            tk1 == IF cfg = {} THEN tk0 ELSE Logged(tk0, layer, "list", out)
        IN  /\ (cfg \subseteq {"memory"} => up)
            /\ tasks' = [tasks EXCEPT ![t] = Finished(tk1, out)]
            /\ last' = KeylessCall("hybrid", "list", Some(a), out)
    /\ UNCHANGED <<now, tz, cfg, mem_data, mem_expiry, db, rds, deleted, watch>>
    /\ UNCHANGED bus

-----------------------------------------------------------------------------
(* watch(pattern) on each service.  One stream is followed from the call   *)
(* that opens it to its close.                                             *)

Opened(store, p) == [NoWatch EXCEPT !.kind = store, !.pattern = Some(p), !.state = "open"]
Refused(store, p, err) ==
    [NoWatch EXCEPT !.kind = store, !.pattern = Some(p), !.state = "failed",
                    !.err = Some(err)]

\* The consumer asks a service for the stream's first item.
\*   memory.py 80-97: subscribe adds to self._subscribers[pattern], a plain
\*     dict that has no entry for the pattern: KeyError.
\*   database.py 124-135: the queue is appended under prefix:pattern.
\*   redis.py 65-82: PSUBSCRIBE prefix:pattern, or the connection fails.
\*   hybrid.py 122-151: the queue is appended under the pattern as passed and
\*     one forwarding task is created for each configured layer.
OpenWatch(store, p) ==
    /\ watch.state = "none"
    /\ \E up \in BOOLEAN :
        /\ (store # "redis" => up)
        /\ watch' =
             CASE store = "memory" -> Refused(store, p, "KeyError")
               [] store = "database" -> [Opened(store, p) EXCEPT !.reg["database"] = TRUE]
               [] store = "redis" ->
                    IF up THEN [Opened(store, p) EXCEPT !.reg["redis"] = TRUE]
                    ELSE Refused(store, p, "ConnectionError")
               [] store = "hybrid" ->
                    [Opened(store, p) EXCEPT
                        !.hreg = TRUE,
                        !.fwd = [l \in Layers |-> IF l \in cfg THEN "created" ELSE "none"]]
        /\ last' = KeylessCall(store, "watch", None,
                               IF watch'.state = "open" THEN Ok(None)
                               ELSE Raised(Val(watch'.err)))
    /\ UNCHANGED <<now, tz, cfg, mem_data, mem_expiry, db, rds, tasks, deleted, nops>>
    /\ UNCHANGED bus

\* forward_changes(storage) starts: it asks the layer's watch for its first
\* item.  What the layer raises is caught and printed, and the task ends.
FwdStart(layer) ==
    /\ watch.fwd[layer] = "created"
    /\ \E up \in BOOLEAN :
        /\ (layer # "redis" => up)
        /\ watch' = IF layer = "memory" \/ ~up
                    THEN [watch EXCEPT !.fwd[layer] = "failed"]
                    ELSE [watch EXCEPT !.fwd[layer] = "watching", !.reg[layer] = TRUE]
    /\ last' = NoCall
    /\ UNCHANGED <<now, tz, cfg, mem_data, mem_expiry, db, rds, tasks, deleted, nops>>
    /\ UNCHANGED bus

\* forward_changes(storage) receives the layer's next item and puts it on the
\* stream's queue.
FwdMove(layer) ==
    /\ watch.fwd[layer] = "watching"
    /\ watch.lq[layer] # <<>>
    /\ LET x == Head(watch.lq[layer])
           w1 == [watch EXCEPT !.lq[layer] = Tail(@)]
       IN  watch' = IF Skipped(layer, x) THEN w1
                    ELSE [w1 EXCEPT !.hq = Append(@, Yielded(layer, x))]
    /\ last' = NoCall
    /\ UNCHANGED <<now, tz, cfg, mem_data, mem_expiry, db, rds, tasks, deleted, nops>>
    /\ UNCHANGED bus

\* a stream that yields the delete messages too, as items without a value
ConsumeUnfiltered ==
    /\ watch.state = "open"
    /\ IF watch.kind = "hybrid"
       THEN /\ watch.hq # <<>>
            /\ watch' = [watch EXCEPT !.hq = Tail(@), !.got = Append(@, Head(watch.hq))]
       ELSE LET layer == watch.kind
                x == Head(watch.lq[layer])
                w1 == [watch EXCEPT !.lq[layer] = Tail(@)]
            IN  /\ watch.lq[layer] # <<>>
                /\ watch' = IF Skipped(layer, x)
                            THEN [w1 EXCEPT !.got = Append(@, [key |-> RetVal(ParseKey(x.channel)),
                                                                value |-> None])]
                            ELSE [w1 EXCEPT !.got = Append(@, Yielded(layer, x))]
    /\ last' = NoCall
    /\ UNCHANGED <<now, tz, cfg, mem_data, mem_expiry, db, rds, tasks, deleted, nops>>
    /\ UNCHANGED bus

\* The stream yields its next item to the consumer.
Consume ==
    /\ watch.state = "open"
    /\ IF watch.kind = "hybrid"
       THEN /\ watch.hq # <<>>
            /\ watch' = [watch EXCEPT !.hq = Tail(@), !.got = Append(@, Head(watch.hq))]
       ELSE LET layer == watch.kind
                x == Head(watch.lq[layer])
                w1 == [watch EXCEPT !.lq[layer] = Tail(@)]
            IN  /\ watch.lq[layer] # <<>>
                /\ watch' = IF Skipped(layer, x) THEN w1
                            ELSE [w1 EXCEPT !.got = Append(@, Yielded(layer, x))]
    /\ last' = NoCall
    /\ UNCHANGED <<now, tz, cfg, mem_data, mem_expiry, db, rds, tasks, deleted, nops>>
    /\ UNCHANGED bus

\* The consumer closes the stream: the finally block of watch runs.  A
\* backend's stream removes its queue (database) or its PSUBSCRIBE (redis).
\* The orchestrator's removes its queue from its registry and calls cancel()
\* on every forwarding task; a task that has ended ignores it, and one that
\* has not is cancelled when the event loop next runs it.
CloseWatch ==
    /\ watch.state = "open"
    /\ watch' =
         IF watch.kind = "hybrid"
         THEN [watch EXCEPT
                 !.state = "closed",
                 !.hreg = FALSE,
                 !.fwd = [l \in Layers |->
                            IF watch.fwd[l] \in {"created", "watching"}
                            THEN "cancelling" ELSE watch.fwd[l]]]
         ELSE [watch EXCEPT !.state = "closed", !.reg[watch.kind] = FALSE]
    /\ last' = NoCall
    /\ UNCHANGED <<now, tz, cfg, mem_data, mem_expiry, db, rds, tasks, deleted, nops>>
    /\ UNCHANGED bus

\* cancellation that leaves the layer's watch registered
FwdCancelledLeaking(layer) ==
    /\ watch.fwd[layer] = "cancelling"
    /\ watch' = [watch EXCEPT !.fwd[layer] = "cancelled"]
    /\ last' = NoCall
    /\ UNCHANGED <<now, tz, cfg, mem_data, mem_expiry, db, rds, tasks, deleted, nops>>
    /\ UNCHANGED bus

\* The event loop runs a forwarding task that was asked to cancel:
\* CancelledError is raised where it waits, inside the layer's watch, whose
\* finally block removes the layer's registration.  A task that had not
\* started never runs its body.
FwdCancelled(layer) ==
    /\ watch.fwd[layer] = "cancelling"
    /\ watch' = [watch EXCEPT !.fwd[layer] = "cancelled", !.reg[layer] = FALSE]
    /\ last' = NoCall
    /\ UNCHANGED <<now, tz, cfg, mem_data, mem_expiry, db, rds, tasks, deleted, nops>>
    /\ UNCHANGED bus

\* subscribe(pattern), hybrid.py 167-171: a new queue is appended to the
\* orchestrator's list for the pattern as passed.
HSubscribe(p) ==
    /\ watch.state = "none"
    /\ watch' = [NoWatch EXCEPT !.kind = "subscribe", !.pattern = Some(p),
                                !.state = "subscribed", !.hreg = TRUE]
    /\ last' = KeylessCall("hybrid", "subscribe", None, Ok(None))
    /\ UNCHANGED <<now, tz, cfg, mem_data, mem_expiry, db, rds, tasks, deleted, nops>>
    /\ UNCHANGED bus

\* unsubscribe(pattern, queue), hybrid.py 173-179: the queue is removed.
HUnsubscribe ==
    /\ watch.state = "subscribed"
    /\ watch' = [watch EXCEPT !.state = "unsubscribed", !.hreg = FALSE]
    /\ last' = KeylessCall("hybrid", "unsubscribe", None, Ok(None))
    /\ UNCHANGED <<now, tz, cfg, mem_data, mem_expiry, db, rds, tasks, deleted, nops>>
    /\ UNCHANGED bus

-----------------------------------------------------------------------------
(* events.py: EventSystem, and storage/events.py: StorageEventBus.  One    *)
(* emit is followed from its call to the end of the handlers it started.   *)

Registrations(b) ==
    Len(b.handlers["FileChangeEvent"]) + Len(b.handlers["FeatureReloadEvent"])
        + Len(b.handlers["SubEvent"])

\* on(event_type)(func): func is appended to the type's list.
On(T, h) ==
    /\ Registrations(bus) < MaxRegs
    /\ bus' = [bus EXCEPT !.handlers[T] = Append(@, h)]
    /\ last' = KeylessCall("bus", "on", None, Ok(None))
    /\ UNCHANGED <<now, tz, cfg, mem_data, mem_expiry, db, rds, tasks, deleted, nops, watch>>

\* StorageEventBus.initialize: the StorageManager it asks has no attribute
\* storages, so it raises and _redis stays None.
BusInitialize ==
    /\ bus.pc = "idle"
    /\ last.op # "initialize"
    /\ last' = KeylessCall("bus", "initialize", None, Raised("AttributeError"))
    /\ UNCHANGED <<now, tz, cfg, mem_data, mem_expiry, db, rds, tasks, deleted, nops, watch,
                   bus>>

\* What emit returns once its handlers have returned: with _redis set it goes
\* on to publish, on an object that has no such method.
Emitted(b) == IF b.redis THEN Raised("AttributeError") ELSE Ok(None)

\* The handlers an emit of an event of type T calls, from the lists of the
\* types in Ts, each with the type it was registered for
Invoked(b, Ts) ==
    LET Of(U) == IF U \in Ts
                 THEN [i \in 1..Len(b.handlers[U]) |-> [type |-> U, handler |-> b.handlers[U][i]]]
                 ELSE <<>>
    IN  Of("FileChangeEvent") \o Of("FeatureReloadEvent") \o Of("SubEvent")

\* emit that also calls the handlers registered for the event's base classes
EmitIsinstance(T) ==
    /\ bus.pc = "idle"
    /\ LET called == Invoked(bus, Bases(T)) IN
       bus' = IF called = <<>>
              THEN [bus EXCEPT !.pc = "done", !.event = Some(T), !.out = Some(Emitted(bus))]
              ELSE [bus EXCEPT !.pc = "gathering", !.event = Some(T),
                               !.at_emit = bus.handlers[T],
                               !.invoked = called,
                               !.running = 1..Len(called)]
    /\ last' = KeylessCall("bus", "emit", None, Ok(None))
    /\ UNCHANGED <<now, tz, cfg, mem_data, mem_expiry, db, rds, tasks, deleted, nops, watch>>

\* emit(event), lines 42-51 and 34-36: the handlers listed under type(event)
\* are all called and gathered; with none listed emit goes straight on.
Emit(T) ==
    /\ bus.pc = "idle"
    /\ LET called == Invoked(bus, {T}) IN
       bus' = IF called = <<>>
              THEN [bus EXCEPT !.pc = "done", !.event = Some(T), !.out = Some(Emitted(bus))]
              ELSE [bus EXCEPT !.pc = "gathering", !.event = Some(T),
                               !.at_emit = bus.handlers[T],
                               !.invoked = called,
                               !.running = 1..Len(called)]
    /\ last' = KeylessCall("bus", "emit", None, Ok(None))
    /\ UNCHANGED <<now, tz, cfg, mem_data, mem_expiry, db, rds, tasks, deleted, nops, watch>>

\* A handler returns or raises.  asyncio.gather hands the first exception to
\* emit at once, while the other handlers go on; it returns to emit when the
\* last handler has returned.
HandlerEnds(i) ==
    /\ i \in bus.running
    /\ \E ok \in BOOLEAN :
        LET b1 == [bus EXCEPT !.running = @ \ {i},
                              !.finished = IF ok THEN @ \cup {i} ELSE @]
        IN  bus' = IF bus.pc # "gathering" THEN b1
                   ELSE IF ~ok
                        THEN [b1 EXCEPT !.pc = "done", !.out = Some(Raised("HandlerError"))]
                   ELSE IF b1.running = {}
                        THEN [b1 EXCEPT !.pc = "done", !.out = Some(Emitted(bus))]
                   ELSE b1
    /\ last' = NoCall
    /\ UNCHANGED <<now, tz, cfg, mem_data, mem_expiry, db, rds, tasks, deleted, nops, watch>>

-----------------------------------------------------------------------------
(* Specifications *)

\* The three backends, each called directly.
InitBackends == Init /\ cfg = {}

NextBackends ==
    \/ Tick
    \/ \E key \in Keys : MemGet(key)
    \/ \E key \in Keys, value \in CallerValues : MemSet(key, value)
    \/ \E key \in Keys : MemDelete(key)
    \/ \E key \in Keys : DbGet(key)
    \/ \E key \in Keys, value \in CallerValues : DbSet(key, value)
    \/ \E key \in Keys : DbDelete(key)
    \/ \E key \in Keys : RedisGet(key)
    \/ \E key \in Keys, value \in CallerValues : RedisSet(key, value)
    \/ \E key \in Keys : RedisDelete(key)

SpecBackends == InitBackends /\ [][NextBackends]_vars

\* Listing and sweeping: the backends written to directly, then listed and
\* swept directly, and listed through the orchestrator.
NextList ==
    \/ Tick
    \/ \E key \in ListKeys, value \in ListValues : MemSet(key, value)
    \/ \E key \in ListKeys, value \in ListValues : DbSet(key, value)
    \/ \E key \in ListKeys, value \in ListValues : RedisSet(key, value)
    \/ \E key \in ListKeys : DbDelete(key)
    \/ \E a \in ListArgs : MemList(a)
    \/ \E a \in ListArgs : DbList(a)
    \/ \E a \in ListArgs : RedisList(a)
    \/ MemCleanup
    \/ DbCleanup
    \/ \E t \in Tasks, a \in ListArgs : HList(t, a)

SpecList == Init /\ [][NextList]_vars

\* The orchestrator over every choice of layers, on a UTC host, with callers
\* that also write to the database and delete from a layer directly.
InitHybrid == Init /\ tz = 0

Next ==
    \/ Tick
    \/ \E key \in HybridKeys, value \in CallerValues : DbSet(key, value)
    \/ \E key \in HybridKeys : MemDelete(key)
    \/ \E key \in HybridKeys : DbDelete(key)
    \/ \E key \in HybridKeys : RedisDelete(key)
    \/ \E t \in Tasks : RedisServe(t)
    \/ \E t \in Tasks, key \in HybridKeys : HGet(t, key)
    \/ \E t \in Tasks : HGetRedisReply(t)
    \/ \E t \in Tasks : HGetBackfillReply(t)
    \/ \E t \in Tasks, key \in HybridKeys, value \in CallerValues : HSet(t, key, value)
    \/ \E t \in Tasks : HSetRedisReply(t)
    \/ \E t \in Tasks, key \in HybridKeys : HDelete(t, key)
    \/ \E t \in Tasks : HDeleteRedisReply(t)

Spec == InitHybrid /\ [][Next]_vars

\* One watched stream on a backend of a UTC host, while callers set and
\* delete on the backends.
InitWatch == Init /\ cfg = {} /\ tz = 0

NextWatch ==
    \/ \E store \in Layers, p \in WatchPatterns : OpenWatch(store, p)
    \/ Consume
    \/ CloseWatch
    \/ \E key \in Keys, value \in WatchValues : MemSet(key, value)
    \/ \E key \in Keys, value \in WatchValues : DbSet(key, value)
    \/ \E key \in Keys, value \in WatchValues : RedisSet(key, value)
    \/ \E key \in Keys : MemDelete(key)
    \/ \E key \in Keys : DbDelete(key)
    \/ \E key \in Keys : RedisDelete(key)

SpecWatch == InitWatch /\ [][NextWatch]_vars

\* One watched stream on the orchestrator over every choice of layers, while
\* callers set on the layers and through the orchestrator.
NextMerged ==
    \/ \E p \in WatchPatterns : OpenWatch("hybrid", p)
    \/ \E l \in Layers : FwdStart(l)
    \/ \E l \in Layers : FwdMove(l)
    \/ Consume
    \/ CloseWatch
    \/ \E l \in Layers : FwdCancelled(l)
    \/ \E key \in HybridKeys, value \in WatchValues : MemSet(key, value)
    \/ \E key \in HybridKeys, value \in WatchValues : DbSet(key, value)
    \/ \E key \in HybridKeys, value \in WatchValues : RedisSet(key, value)
    \/ \E t \in Tasks : RedisServe(t)
    \/ \E t \in Tasks, key \in HybridKeys, value \in WatchValues : HSet(t, key, value)
    \/ \E t \in Tasks : HSetRedisReply(t)

SpecMerged == InitHybrid /\ [][NextMerged]_vars

\* The event loop runs every task that can run and the consumer keeps
\* asking for the next item while the stream is open.
FairMerged ==
    /\ SpecMerged
    /\ \A l \in Layers : WF_vars(FwdStart(l)) /\ WF_vars(FwdMove(l))
    /\ WF_vars(Consume)

\* The orchestrator of a UTC host constructed over a database that already
\* holds an entry for the key, written by an earlier set of the older value;
\* its callers get the key and set the newer value.
OlderValue == StorageValue("v1", None, None, None)
NewerValue == StorageValue("v2", None, None, None)

InitReadThrough ==
    /\ now = 0
    /\ tz = 0
    /\ cfg \in {c \in SUBSET Layers : "database" \in c}
    /\ mem_data = EmptyDict
    /\ mem_expiry = EmptyDict
    /\ \E key \in HybridKeys : db = DbSetState(EmptyDict, key, OlderValue, 0)
    /\ rds = EmptyDict
    /\ tasks = [t \in Tasks |-> IdleTask]
    /\ last = NoCall
    /\ deleted = [s \in Stores |-> {}]
    /\ nops = 0
    /\ watch = NoWatch
    /\ bus = NoBus

NextReadThrough ==
    \/ \E t \in Tasks : RedisServe(t)
    \/ \E t \in Tasks, key \in HybridKeys : HGet(t, key)
    \/ \E t \in Tasks : HGetRedisReply(t)
    \/ \E t \in Tasks : HGetBackfillReply(t)
    \/ \E t \in Tasks, key \in HybridKeys : HSet(t, key, NewerValue)
    \/ \E t \in Tasks : HSetRedisReply(t)

SpecReadThrough == InitReadThrough /\ [][NextReadThrough]_vars

\* One queue subscribed on the orchestrator, over every choice of layers,
\* while callers set through the orchestrator.
NextSubscribe ==
    \/ \E p \in WatchPatterns : HSubscribe(p)
    \/ HUnsubscribe
    \/ \E t \in Tasks : RedisServe(t)
    \/ \E t \in Tasks, key \in HybridKeys, value \in CallerValues : HSet(t, key, value)
    \/ \E t \in Tasks : HSetRedisReply(t)

SpecSubscribe == InitHybrid /\ [][NextSubscribe]_vars

\* Handlers are registered on the bus and one event is emitted.
NextBus ==
    \/ \E T \in EventTypes, h \in HandlerNames : On(T, h)
    \/ BusInitialize
    \/ \E T \in EventTypes : Emit(T)
    \/ \E i \in 1..MaxRegs : HandlerEnds(i)

SpecBus == InitWatch /\ [][NextBus]_vars

\* Keys of every shape, flattened and parsed back, and used on the backends
\* of a UTC host.
NextKeys ==
    \/ \E key \in EncKeys : RoundTrip(key)
    \/ \E key \in EncKeys, value \in EncValues : MemSet(key, value)
    \/ \E key \in EncKeys, value \in EncValues : DbSet(key, value)
    \/ \E key \in EncKeys, value \in EncValues : RedisSet(key, value)
    \/ \E key \in EncKeys : MemGet(key)
    \/ \E key \in EncKeys : DbGet(key)
    \/ \E key \in EncKeys : RedisGet(key)

SpecKeys == InitWatch /\ [][NextKeys]_vars

-----------------------------------------------------------------------------
(* Properties *)

\* A value that has not expired at time t
Unexpired(value, t) == value.expires_at = None \/ t < Val(value.expires_at)

\* The payload a layer's get hands back: the memory backend returns what its
\* dict holds, the others a StorageValue.
Payload(layer, out) == IF layer = "memory" THEN RetVal(out) ELSE RetVal(out).value

\* The last step was a set of an unexpired value made directly on a layer.
JustSet(layer) ==
    /\ last.store = layer
    /\ last.op = "set"
    /\ Returned(last.out)
    /\ Unexpired(Val(last.arg), now)

\* C1: memory round trip.  Right after a completed MemoryStorageService.set(k, v)
\* (v not expired), get(k) returns v and does not raise KeyError.
C1_MemoryRoundTrip ==
    JustSet("memory") =>
        LET out == LayerGetOut("memory", Val(last.key)) IN
        /\ Returned(out)
        /\ Payload("memory", out) = Val(last.arg).value

\* C2: durable round trip after any history.  Right after a completed
\* DatabaseStorageService.set(k, v) where v carries no expires_at, get(k) returns
\* v and does not raise KeyError, whatever row k had before.
C2_DurableRoundTrip ==
    (JustSet("database") /\ Val(last.arg).expires_at = None) =>
        LET out == LayerGetOut("database", Val(last.key)) IN
        /\ Returned(out)
        /\ Payload("database", out) = Val(last.arg).value

\* Task t has finished a call op and handed its caller an outcome.
Done(t, op) == tasks[t].op = op /\ tasks[t].pc = "idle" /\ tasks[t].out # None
TaskKey(t) == Val(tasks[t].key)
TaskOut(t) == Val(tasks[t].out)

\* The call of task t on a layer had this outcome.
Called(t, layer, op, kind) ==
    \E i \in 1..Len(tasks[t].calls) : tasks[t].calls[i] = [layer |-> layer, op |-> op, kind |-> kind]

\* A layer holds value for key: its own get(key) returns it.
Holds(layer, key, value) ==
    LET out == LayerGetOut(layer, key) IN
    Returned(out) /\ Payload(layer, out) = value.value

C4_BackFill ==
    \A t \in Tasks :
        ( /\ Done(t, "get")
          /\ cfg = {"memory", "database"}
          /\ Called(t, "database", "get", "ok")
          /\ tasks[t].quiet
          /\ Unexpired(Val(tasks[t].found), now) )
        => /\ TaskOut(t) = Ok(Val(tasks[t].found))
           /\ LET m == LayerGetOut("memory", TaskKey(t)) IN
              Returned(m) /\ Payload("memory", m) = Val(tasks[t].found).value

\* The get calls a Hybrid.get has made so far
Gets(t) == SelectSeq(tasks[t].calls, LAMBDA c : c.op = "get")
\* The configured layers, fastest first
Cascade == SelectSeq(<<"memory", "redis", "database">>, LAMBDA l : l \in cfg)

\* Hybrid.get asks the configured layers in cascade order and asks no layer
\* after one has hit.
HGetOrder(t) ==
    /\ Len(Gets(t)) <= Len(Cascade)
    /\ \A i \in 1..Len(Gets(t)) :
        /\ Gets(t)[i].layer = Cascade[i]
        /\ i < Len(Gets(t)) => Gets(t)[i].kind # "ok"

\* C5: hybrid read cascade order.  Hybrid.get asks the configured layers in the
\* order memory, redis, database, never asks a layer slower than the one that
\* hit, and returns the value of the first layer that hit.
C5_CascadeOrder ==
    \A t \in Tasks :
        tasks[t].op = "get" =>
            /\ HGetOrder(t)
            /\ (Done(t, "get") /\ \E l \in Layers : Called(t, l, "get", "ok"))
                => TaskOut(t) = Ok(Val(tasks[t].found))

\* C6: hybrid write-through.  After a Hybrid.set(k, v) that returned without
\* error, with no other writer of k and v not expired, get(k) on every
\* configured layer returns v.
C6_WriteThrough ==
    \A t \in Tasks :
        ( /\ Done(t, "set")
          /\ Returned(TaskOut(t))
          /\ tasks[t].quiet
          /\ Unexpired(Val(tasks[t].arg), now) )
        => \A l \in cfg :
              LET out == LayerGetOut(l, TaskKey(t)) IN
              Returned(out) /\ Payload(l, out) = Val(tasks[t].arg).value

\* C7: partial layer failure is not fatal.  A Hybrid.set or Hybrid.delete in
\* which one layer's operation succeeded and another's raised does not raise
\* to its caller.
C7_PartialFailureNotFatal ==
    \A t \in Tasks :
        ( /\ tasks[t].op \in {"set", "delete"}
          /\ tasks[t].out # None
          /\ \E l \in Layers : Called(t, l, tasks[t].op, "ok")
          /\ \E l \in Layers, e \in {"ConnectionError", "ResponseError"} :
                Called(t, l, tasks[t].op, e) )
        => Returned(TaskOut(t))

\* C8: no rollback on partial failure.  When a Hybrid.set(k, v) in which a
\* layer's write raised is over, every configured layer's write has run to its
\* own end (it succeeded, or failed for that layer's own reason), and every
\* layer whose write succeeded holds v for k afterwards (no other writer of k,
\* v not expired): none is cancelled or put back to what it held.
C8_NoRollback ==
    \A t \in Tasks :
        (Done(t, "set") /\ ~Returned(TaskOut(t))) =>
            /\ \A l \in cfg : \E e \in {"ok", "ConnectionError", "ResponseError"} :
                  Called(t, l, "set", e)
            /\ (tasks[t].quiet /\ Unexpired(Val(tasks[t].arg), now)) =>
                  \A l \in cfg : Called(t, l, "set", "ok") =>
                      Holds(l, TaskKey(t), Val(tasks[t].arg))

\* C9: Hybrid.get fails only when every layer failed.  A Hybrid.get(k) in which
\* some configured layer's get returned a value returns that value, also when
\* the back-fill of a faster layer raised.
C9_GetSurfacesFailureLast ==
    \A t \in Tasks :
        (Done(t, "get") /\ \E l \in Layers : Called(t, l, "get", "ok"))
        => Returned(TaskOut(t))

\* C10: NotFound is distinguishable from backend failure.  A Hybrid.get in
\* which no layer hit and a layer's get failed with a connection error does not
\* signal the NotFound kind (KeyError) to its caller.
C10_NotFoundDistinct ==
    \A t \in Tasks :
        ( /\ Done(t, "get")
          /\ ~Returned(TaskOut(t))
          /\ \E l \in Layers : Called(t, l, "get", "ConnectionError") )
        => TaskOut(t).kind # "KeyError"

\* The version a layer's get reports (the memory backend returns the bare
\* payload, which carries none).
VersionOf(layer, out) == IF layer = "memory" THEN None ELSE RetVal(out).version

\* A value whose expires_at is earlier than time t
Expired(value, t) == value.expires_at # None /\ Val(value.expires_at) < t

\* C11: version monotonicity per key per backend.  A successful set of an
\* unexpired value made directly on a backend leaves get(k).version at 1 when
\* get(k) raised KeyError before it (first set of an absent key), and at one
\* more than get(k).version was before it otherwise, whatever version the
\* passed-in value carries.
C11_VersionMonotonic ==
    [][ \A l \in Layers, k \in Keys :
          (last'.store = l /\ last'.op = "set" /\ last'.key = Some(k)
              /\ Returned(last'.out) /\ Unexpired(Val(last'.arg), now')) =>
            LET before == LayerGetOut(l, k)
                after == LayerGetOut(l, k)'
            IN  /\ Returned(after)
                /\ VersionOf(l, after) =
                      IF Returned(before) THEN Some(Val(VersionOf(l, before)) + 1)
                      ELSE Some(1) ]_vars

\* C12: lazy expiry on get.  On every backend a set(k, v) whose expires_at is
\* earlier than the current time completes (the backend being reachable), and
\* get(k) raises KeyError right after it, no cleanup() having run.
C12_LazyExpiry ==
    \A l \in Layers :
        ( /\ last.store = l
          /\ last.op = "set"
          /\ last.out.kind # "ConnectionError"
          /\ Expired(Val(last.arg), now) )
        => /\ Returned(last.out)
           /\ LayerGetOut(l, Val(last.key)).kind = "KeyError"

\* The entry a layer stores for key carries an expires_at earlier than now.
StoredExpired(layer, key) ==
    CASE layer = "memory" ->
            /\ ObjKey(key) \in DOMAIN mem_data
            /\ ObjKey(key) \in DOMAIN mem_expiry
            /\ mem_expiry[ObjKey(key)] < now
      [] layer = "redis" ->
            /\ MakeKey(key) \in DOMAIN rds
            /\ Expired(rds[MakeKey(key)].data, now)
      [] layer = "database" ->
            /\ MakeKey(key) \in DOMAIN db
            /\ db[MakeKey(key)].expires_at # None
            /\ Timestamp(Val(db[MakeKey(key)].expires_at), tz) < now

\* A layer stores an entry for key.
Stored(layer, key) ==
    CASE layer = "memory" -> ObjKey(key) \in DOMAIN mem_data
      [] layer = "redis" -> RedisLive(rds, MakeKey(key), now)
      [] layer = "database" -> MakeKey(key) \in DOMAIN db

\* The layer the orchestrator's list should speak for: durable if configured,
\* otherwise remote-cache, otherwise memory.
Authoritative ==
    IF "database" \in cfg THEN "database" ELSE IF "redis" \in cfg THEN "redis" ELSE "memory"

\* C13: expired entries are absent from list.  A list that has just returned,
\* on a backend or on the orchestrator, holds no key whose stored entry has an
\* expires_at in the past, swept or not.
C13_ListHidesExpired ==
    (last.op = "list" /\ Returned(last.out)) =>
        LET layer == IF last.store = "hybrid" THEN Authoritative ELSE last.store IN
        \A rk \in RetVal(last.out), k \in ListKeys :
            MakeKey(rk) = MakeKey(k) => ~StoredExpired(layer, k)

\* C14: eager expiry sweep.  A completed cleanup() of the memory or the durable
\* backend leaves no entry whose expires_at was earlier than the time of the
\* call (value and expiry record both gone) and leaves every entry with no
\* expires_at or with a later expires_at as it was.
C14_CleanupSweeps ==
    [][ /\ (last'.store = "memory" /\ last'.op = "cleanup") =>
            /\ \A k \in DOMAIN mem_expiry :
                  mem_expiry[k] < now =>
                      k \notin DOMAIN mem_data' /\ k \notin DOMAIN mem_expiry'
            /\ \A k \in DOMAIN mem_data :
                  (k \notin DOMAIN mem_expiry \/ mem_expiry[k] > now) =>
                      /\ k \in DOMAIN mem_data' /\ mem_data'[k] = mem_data[k]
                      /\ (k \in DOMAIN mem_expiry =>
                            k \in DOMAIN mem_expiry' /\ mem_expiry'[k] = mem_expiry[k])
        /\ (last'.store = "database" /\ last'.op = "cleanup" /\ Returned(last'.out)) =>
            \A k \in DOMAIN db :
                IF db[k].expires_at # None /\ Timestamp(Val(db[k].expires_at), tz) < now
                THEN k \notin DOMAIN db'
                ELSE (db[k].expires_at = None \/ Timestamp(Val(db[k].expires_at), tz) > now)
                        => (k \in DOMAIN db' /\ db'[k] = db[k]) ]_vars

\* C15: scope isolation.  A list(scope, scope_id) that a reachable backend has
\* just answered, no stored entry being expired, returned exactly the keys
\* stored there under that scope and that scope_id, each equal to the key that
\* was written.
C15_ScopeIsolation ==
    \A l \in Layers :
        ( /\ last.store = l
          /\ last.op = "list"
          /\ last.out.kind # "ConnectionError"
          /\ \A k \in ListKeys : ~StoredExpired(l, k) )
        => /\ Returned(last.out)
           /\ RetVal(last.out) =
                 { k \in ListKeys : /\ Stored(l, k)
                                     /\ k.scope = Val(last.arg).scope
                                     /\ k.scope_id = Val(last.arg).scope_id }

\* C19: hybrid list delegation.  A finished Hybrid.list called list on exactly
\* one layer, the durable one if configured, otherwise the remote cache,
\* otherwise memory, and on no layer at all when none is configured, in which
\* case it returned the empty list; what it returned or raised is what that
\* one layer's list returned or raised.
C19_ListDelegation ==
    /\ \A t \in Tasks :
          Done(t, "list") =>
              IF cfg = {}
              THEN tasks[t].calls = <<>> /\ TaskOut(t) = Ok({})
              ELSE tasks[t].calls = <<[layer |-> Authoritative, op |-> "list",
                                       kind |-> TaskOut(t).kind]>>
    /\ (last.store = "hybrid" /\ last.op = "list" /\ cfg # {}
            /\ last.out.kind # "ConnectionError")
          => last.out = LayerListOut(Authoritative, Val(last.arg))

\* C19 happens: over all three layers, with redis holding a key the database
\* does not hold, Hybrid.list returned the database's keys.
C19_Witness ==
    \E t \in Tasks :
        /\ Done(t, "list")
        /\ cfg = Layers
        /\ Returned(TaskOut(t))
        /\ RetVal(TaskOut(t)) # {}
        /\ last.store = "hybrid"
        /\ last.out = TaskOut(t)
        /\ LayerListOut("redis", Val(last.arg)) # LayerListOut("database", Val(last.arg))

\* The key and the payload of each entry of a sequence of items or of logged
\* operations
Events(q) == [i \in 1..Len(q) |-> [k |-> MakeKey(q[i].key), value |-> q[i].value]]

\* C16: a watcher that subscribed to a pattern on a single backend does get
\* a stream, and once it has consumed all that is queued for it, what it
\* received is one event for each set and delete of a matching key made on
\* that backend since it subscribed, in the order they were made.
C16_WatchOrder ==
    /\ (watch.kind \in Layers /\ watch.err # Some("ConnectionError"))
          => watch.state \in {"open", "closed"}
    /\ (watch.kind \in Layers /\ watch.state = "open" /\ watch.lq[watch.kind] = <<>>)
          => Events(watch.got) = Events(watch.sent)

\* C17: every set of a matching key applied to a configured layer while the
\* orchestrator's stream is open is eventually yielded by the stream, unless
\* the stream is closed first.
C17_MergedWatch ==
    \A n \in 1..MaxOps :
        (watch.kind = "hybrid" /\ watch.state = "open" /\ Len(watch.sent) >= n)
            ~> \/ watch.state # "open"
               \/ /\ Len(watch.sent) >= n
                  /\ \E i \in 1..Len(watch.got) :
                        Events(watch.got)[i] = Events(watch.sent)[n]

\* C18 as stated: nothing is enqueued for the orchestrator's stream, in the
\* orchestrator or in a layer, after the stream is closed.
C18_NothingEnqueuedAfterClose == watch.late = 0

\* C18: closing the orchestrator's stream removes its queue from the
\* orchestrator's registry and leaves no forwarding task running or waiting
\* to start; a layer keeps the stream registered only while its forwarding
\* task waits to be cancelled, and only such a layer enqueues anything for
\* the stream after the close.
C18_Teardown ==
    (watch.kind = "hybrid" /\ watch.state = "closed") =>
        /\ ~watch.hreg
        /\ \A l \in Layers :
              /\ watch.fwd[l] \notin {"created", "watching"}
              /\ watch.reg[l] => watch.fwd[l] = "cancelling"
        /\ watch.stale = 0

C18_Witness ==
    /\ watch.kind = "hybrid" /\ watch.state = "closed"
    /\ cfg = {"database"}
    /\ watch.got # <<>>
    /\ watch.fwd["database"] = "cancelled"
    /\ last.store = "database" /\ last.op = "set" /\ Returned(last.out)
    /\ watch.late = 0

\* C20: on a backend with an open watch whose pattern matches k, delete(k)
\* raises nothing and puts one event on the watcher's queue when the backend
\* held an entry for k, none when it did not.
C20_DeleteNotifies ==
    [][ \A l \in Layers, k \in Keys :
          ( /\ last'.store = l /\ last'.op = "delete" /\ last'.key = Some(k)
            /\ last'.out.kind # "ConnectionError"
            /\ watch.kind = l /\ watch.state = "open"
            /\ Fnmatch(MakeKey(k), WatchPattern(Val(watch.pattern))) )
          => /\ Returned(last'.out)
             /\ Len(watch'.lq[l]) =
                   Len(watch.lq[l]) + (IF Returned(LayerGetOut(l, k)) THEN 1 ELSE 0) ]_vars

\* C21: key encoding is reversible.  Parsing the flattened form of a key gives
\* back the key, whatever its scope, and with or without scope_id and
\* namespace.
C21_KeyRoundTrip ==
    last.op = "_parse_key" => last.out = Ok(Val(last.key))

\* A key of a non-GLOBAL scope that carries no scope_id
Malformed(key) == key.scope # "GLOBAL" /\ key.scope_id = None

\* C22: malformed keys are rejected.  A get, set or delete with a key of a
\* non-GLOBAL scope and no scope_id raises a validation error, and no backend
\* holds an entry under such a key.
C22_MalformedRejected ==
    /\ ( /\ last.store \in Layers /\ last.op \in {"get", "set", "delete"}
         /\ Malformed(Val(last.key)) /\ last.out.kind # "ConnectionError" )
       => last.out.kind = "ValueError"
    /\ \A l \in Layers, k \in EncKeys : Malformed(k) => ~Stored(l, k)

\* C30: distinct keys never share a storage slot.  Two unequal keys flatten to
\* different strings, and a set of one of them on a backend leaves what get
\* of the other returns or raises on that backend as it was.
C30_DistinctSlots ==
    [][ \A l \in Layers, k1 \in EncKeys, k2 \in EncKeys :
          ( /\ k1 # k2
            /\ last'.store = l /\ last'.op = "set" /\ last'.key = Some(k1)
            /\ Returned(last'.out) )
          => /\ MakeKey(k1) # MakeKey(k2)
             /\ KeyStr(k1) # KeyStr(k2)
             /\ LayerGetOut(l, k2)' = LayerGetOut(l, k2) ]_vars

\* The expires_at a layer keeps for the entry it holds under a key
StoredExpiry(layer, key) ==
    CASE layer = "memory" ->
            IF ObjKey(key) \in DOMAIN mem_expiry THEN Some(mem_expiry[ObjKey(key)]) ELSE None
      [] layer = "redis" -> rds[MakeKey(key)].data.expires_at
      [] layer = "database" ->
            IF db[MakeKey(key)].expires_at = None THEN None
            ELSE Some(Timestamp(Val(db[MakeKey(key)].expires_at), tz))

\* C23: expiry is changed only when supplied.  A successful set made directly
\* on a backend over an entry it holds leaves the entry's stored expires_at as
\* it was when the value carries none, and makes it the value's otherwise.
C23_ExpiryOnlyWhenSupplied ==
    [][ \A l \in Layers, k \in Keys :
          ( /\ last'.store = l /\ last'.op = "set" /\ last'.key = Some(k)
            /\ Returned(last'.out)
            /\ Stored(l, k) )
          => /\ Stored(l, k)'
             /\ StoredExpiry(l, k)' =
                   IF Val(last'.arg).expires_at = None THEN StoredExpiry(l, k)
                   ELSE Val(last'.arg).expires_at ]_vars

IsSetOp(x) == x.op = "set"
IsEnvelope(x) == x.data # None

\* What the redis watch will yet yield for the messages it has received
Pending(q) ==
    LET envelopes == SelectSeq(q, IsEnvelope)
    IN  [i \in 1..Len(envelopes) |-> Yielded("redis", envelopes[i])]

C25_Dispatch ==
    bus.pc # "idle" =>
        /\ bus.invoked = [i \in 1..Len(bus.at_emit) |->
                            [type |-> Val(bus.event), handler |-> bus.at_emit[i]]]
        /\ (bus.out # None /\ Returned(Val(bus.out)))
              => bus.running = {} /\ bus.finished = 1..Len(bus.invoked)

C25_Witness ==
    /\ bus.pc = "done"
    /\ Returned(Val(bus.out))
    /\ bus.event = Some("SubEvent")
    /\ Len(bus.invoked) = 2
    /\ bus.finished = {1, 2}
    /\ bus.handlers["FileChangeEvent"] # <<>>

\* The payload a Hybrid.get of key would return now with every layer
\* reachable: that of the first configured layer, in the order memory, redis,
\* database, whose get returns; None when none does.
LaterGet(key) ==
    LET hits == {l \in cfg : Returned(LayerGetOut(l, key))}
        first == IF "memory" \in hits THEN "memory"
                 ELSE IF "redis" \in hits THEN "redis" ELSE "database"
    IN  IF hits = {} THEN None ELSE Some(Payload(first, LayerGetOut(first, key)))

\* C26: a concurrent read-through cannot undo a write.  Once a Hybrid.get
\* that found the older value and a Hybrid.set of a newer one have both
\* returned, with no other write, every configured layer holds the newer
\* value and a later Hybrid.get returns it.
C26_ReadThroughKeepsWrite ==
    \A t \in Tasks, u \in Tasks :
        ( /\ Done(t, "get") /\ Returned(TaskOut(t))
          /\ RetVal(TaskOut(t)).value = OlderValue.value
          /\ Done(u, "set") /\ Returned(TaskOut(u))
          /\ TaskKey(u) = TaskKey(t) )
        => /\ \A l \in cfg : Holds(l, TaskKey(u), Val(tasks[u].arg))
           /\ LaterGet(TaskKey(u)) = Some(Val(tasks[u].arg).value)

\* The version a Hybrid.get of key would return now with every layer
\* reachable
LaterVersion(key) ==
    LET hits == {l \in cfg : Returned(LayerGetOut(l, key))}
        first == IF "memory" \in hits THEN "memory"
                 ELSE IF "redis" \in hits THEN "redis" ELSE "database"
    IN  IF hits = {} THEN None ELSE VersionOf(first, LayerGetOut(first, key))

\* C27: back-fill preserves the entry.  After a Hybrid.get has returned, with
\* no write by another caller since it began and no call in progress, a
\* second Hybrid.get would return the same value and the same version, and
\* every faster layer that now has the entry reports the version of the
\* layer it was read from.
C27_BackfillPreserves ==
    \A t \in Tasks :
        ( /\ Done(t, "get") /\ Returned(TaskOut(t))
          /\ tasks[t].quiet
          /\ \A u \in Tasks : tasks[u].pc = "idle" )
        => /\ LaterGet(TaskKey(t)) = Some(RetVal(TaskOut(t)).value)
           /\ LaterVersion(TaskKey(t)) = RetVal(TaskOut(t)).version
           /\ \A l \in cfg \ {"memory"} :
                 Returned(LayerGetOut(l, TaskKey(t)))
                    => VersionOf(l, LayerGetOut(l, TaskKey(t))) = RetVal(TaskOut(t)).version

\* The items the orchestrator's stream has yielded or has yet to yield: those
\* the consumer got, those on the stream's queue, and those a layer's watch
\* holds for its forwarding task
Delivered(w) ==
    Len(w.got) + Len(w.hq) + Len(w.lq["memory"]) + Len(w.lq["database"])
        + Len(SelectSeq(w.lq["redis"], IsEnvelope))

\* C28: no duplicate events on the merged stream.  When the only call made
\* is one Hybrid.set(k, v) that returned, made while the orchestrator's
\* stream was open with its forwarding tasks started and k matching its
\* pattern, the stream delivers one item, however many layers are configured.
C28_NoDuplicates ==
    \A t \in Tasks :
        ( /\ nops = 1
          /\ Done(t, "set") /\ Returned(TaskOut(t))
          /\ watch.kind = "hybrid" /\ watch.state = "open"
          /\ watch.sent # <<>> )
        => Delivered(watch) = 1

\* C29: notification follows the writes.  A queue subscribed on the
\* orchestrator receives an item only in the step in which a Hybrid.set
\* returns, after the write of every configured layer for that call has
\* returned without raising, and the item is that call's key and value.
C29_NotifyAfterWrites ==
    [][ (watch.kind = "subscribe" /\ watch'.hq # watch.hq) =>
          \E t \in Tasks :
              /\ \/ tasks[t].pc = "set_redis"
                 \/ /\ tasks[t].pc = "idle" /\ nops' = nops + 1
                    /\ \A u \in Tasks \ {t} : tasks'[u] = tasks[u]
              /\ tasks'[t].op = "set" /\ tasks'[t].pc = "idle"
              /\ tasks'[t].out # None /\ Returned(Val(tasks'[t].out))
              /\ \A l \in cfg : \E i \in 1..Len(tasks'[t].calls) :
                    tasks'[t].calls[i] = [layer |-> l, op |-> "set", kind |-> "ok"]
              /\ watch'.hq = Append(watch.hq, Item(Val(tasks'[t].key), Val(tasks'[t].arg))) ]_vars

C29_Witness ==
    /\ watch.kind = "subscribe"
    /\ cfg = Layers
    /\ watch.hq # <<>>
    /\ \E t \in Tasks : Done(t, "set") /\ Returned(TaskOut(t))
    /\ \E t \in Tasks : Done(t, "set") /\ ~Returned(TaskOut(t))

=============================================================================
